---- MODULE Spec2Model ----
(***************************************************************************)
(* Model of the daily-newsletter program (src/main.py).                    *)
(*                                                                         *)
(*  - get_xkcd_comic: the comic deduplicator and its marker file           *)
(*    (last_xkcd_shown.txt), run after run (SpecComic);                    *)
(*  - send_daily_weather_email: one run of the batch, step by step (Spec); *)
(*  - format_weather_email / interpolate_to_hourly: the forecast series    *)
(*    shown in the email (SpecForecast).                                   *)
(*                                                                         *)
(* Floating-point arithmetic of the interpolation is modelled by exact     *)
(* rational arithmetic (reduced fractions).  Calendar dates are day        *)
(* numbers; timestamps are seconds counted from the local midnight of the  *)
(* day the forecast is shown for.                                          *)
(***************************************************************************)
EXTENDS Integers, Sequences, FiniteSets, TLC

VARIABLES
    \* ---- the world around the program
    today,            \* local calendar date (day number) of datetime.now()
    late,             \* the local time of day is 08:00 or later
    latest,           \* xkcd.com/info.0.json: [num, day] of the latest comic
    file,             \* XKCD_STATE_FILE: [exists, content], content a string
    \* ---- the environment and the scheduler of main
    creds,            \* [weather, email, password]: the variable is set and not empty
    run_once,         \* RUN_ONCE is 'true'
    scheduled,        \* the job is registered with schedule
    next_run,         \* the day of the job's next run (at 08:00)
    \* ---- position of the program
    pc,               \* the statement the program is at
    ret,              \* where get_xkcd_comic returns to
    \* ---- locals of get_xkcd_comic
    comic_num,        \* latest_data['num']
    comic_date,       \* date of latest_data (day number)
    run_today,        \* today, as the run read it first
    is_recent,        \* is_recent
    last_shown_num,   \* last_shown_num: [has, val]; has = FALSE is None
    random_num,       \* random_num (0 before it is drawn)
    xkcd_comic,       \* the returned value: [kind, num], kind "none" is None
    \* ---- locals of send_daily_weather_email
    users,            \* users: a sequence of [email, city] (TRUE: not empty)
    news_articles,    \* TRUE: a non-empty list
    historical_fact,  \* TRUE: not None
    stock_data,       \* TRUE: not None
    movie_recommendation, \* TRUE: not None
    idx,              \* position of the for loop in users
    success_count,    \* success_count
    \* ---- the weather lookup and the locals of format_weather_email
    fpc,              \* "idle"; "looked": get_weather_data answered; "fetched":
                      \* it returned data; "input": forecast_data handed
                      \* over; "shown": series computed
    lookup,           \* the answers to get_weather_data's requests and its result
    now_hour,         \* now.hour (line 645): the hour of the local clock
    target_date,      \* target_date, in days from the day of the run
    forecast_list,    \* forecast_data['list']: a sequence of samples
    next_24h_forecasts, \* the series the email shows
    \* ---- history (not program state)
    log,              \* what the current run did for each recipient so far
    calls,            \* the loads and fetches of the current run, in order
    active,           \* runs of the task in progress
    last_tick,        \* the day of the 08:00 tick the task was last invoked for
    newRuns,          \* how many runs returned the comic that is now the latest as new
    reads,            \* reads of the marker file in the current run
    writes,           \* opens of the marker file for writing in the current run
    read_error,       \* the read of the marker file raised (open or read)
    file0             \* the marker file as it was when the run started

envVars == <<today, late, latest, file>>
mainVars == <<creds, run_once, scheduled, next_run>>
xkcdVars == <<comic_num, comic_date, run_today, is_recent, last_shown_num,
              random_num, xkcd_comic>>
batchVars == <<users, news_articles, historical_fact, stock_data,
               movie_recommendation, idx, success_count>>
fcVars == <<fpc, lookup, now_hour, target_date, forecast_list, next_24h_forecasts>>
histVars == <<newRuns, reads, writes, read_error, file0>>
logVars == <<log, calls, active, last_tick>>

vars == <<envVars, mainVars, pc, ret, xkcdVars, batchVars, fcVars, histVars, logVars>>

-----------------------------------------------------------------------------
(* Bounds of the model *)

MaxDay == 3
FirstComic == 9
MaxComic == 10
MaxFileLen == 2
MaxCount == 2
MaxUsers == 2
MaxSamples == 3
GridEndHour == 23
BatchComic == 2

-----------------------------------------------------------------------------
(* Text of the marker file: str(comic_num) and int(f.read().strip()) *)

DigitChars == <<"0", "1", "2", "3", "4", "5", "6", "7", "8", "9">>

IsDigit(c) == \E d \in 1..Len(DigitChars) : DigitChars[d] = c

DigitVal(c) == (CHOOSE d \in 1..Len(DigitChars) : DigitChars[d] = c) - 1

IsSpace(c) == c = " "

\* the characters a marker file of the model is made of
FileChars == {"0", "1", "9", " ", "x"}

RECURSIVE Str(_)
\* str(n) for n >= 0: the decimal digits of n
Str(n) ==
    IF n < Len(DigitChars)
    THEN <<DigitChars[n + 1]>>
    ELSE Str(n \div Len(DigitChars)) \o <<DigitChars[(n % Len(DigitChars)) + 1]>>

RECURSIVE LStrip(_)
LStrip(s) == IF s # <<>> /\ IsSpace(Head(s)) THEN LStrip(Tail(s)) ELSE s

RECURSIVE RStrip(_)
RStrip(s) ==
    IF s # <<>> /\ IsSpace(s[Len(s)]) THEN RStrip(SubSeq(s, 1, Len(s) - 1)) ELSE s

\* s.strip()
Strip(s) == LStrip(RStrip(s))

RECURSIVE DigitsValue(_)
DigitsValue(s) ==
    IF s = <<>> THEN 0
    ELSE DigitsValue(SubSeq(s, 1, Len(s) - 1)) * Len(DigitChars) + DigitVal(s[Len(s)])

\* int(s): ok = FALSE where int() raises ValueError
IntOf(s) ==
    IF s # <<>> /\ \A i \in 1..Len(s) : IsDigit(s[i])
    THEN [ok |-> TRUE, val |-> DigitsValue(s)]
    ELSE [ok |-> FALSE, val |-> 0]

-----------------------------------------------------------------------------
(* get_xkcd_comic *)

\* Python's None, and a value that is not None
None == [has |-> FALSE, val |-> 0]
Some(n) == [has |-> TRUE, val |-> n]

NoComic == [kind |-> "none", num |-> 0]

NoFile == [exists |-> FALSE, content |-> <<>>]

\* line 1145: the hour of the scheduled run, at("08:00")
RunHour == 8

\* no call of get_weather_data is under way
NoLookup == [current |-> "none", onecall |-> "none", forecast |-> "none",
             result |-> [data |-> "none", forecast |-> "none"]]
FileWith(s) == [exists |-> TRUE, content |-> s]

\* a date test that is off by one day: the day before yesterday passes too
IsRecentTwoDays(cd, td, yd) == (cd = td) \/ (cd = yd) \/ (cd = yd - 1)

\* is_recent = (comic_date == today) or (comic_date == yesterday)
IsRecent(cd, td, yd) == (cd = td) \/ (cd = yd)

RECURSIVE LeadingDigits(_)
LeadingDigits(s) ==
    IF s # <<>> /\ IsDigit(Head(s)) THEN <<Head(s)>> \o LeadingDigits(Tail(s)) ELSE <<>>

\* a lenient read: the digits the text starts with are the number (atoi)
LastShownLenient(f, ioerr) ==
    IF ~f.exists THEN None
    ELSE IF ioerr THEN None
    ELSE LET d == LeadingDigits(Strip(f.content))
         IN  IF d # <<>> THEN Some(DigitsValue(d)) ELSE None

\* lines 331-338: last_shown_num after the read of the state file; ioerr is an
\* open() or read() that raises.  Every exception leaves last_shown_num None.
LastShown(f, ioerr) ==
    IF ~f.exists THEN None
    ELSE IF ioerr THEN None
    ELSE LET p == IntOf(Strip(f.content))
         IN  IF p.ok THEN Some(p.val) ELSE None

\* line 341: is_recent and comic_num != last_shown_num
ShowLatest(r, n, last) == r /\ (Some(n) # last)

\* lines 343-347: the state file after open(.., 'w') and f.write(str(comic_num)):
\* written; open() raised (file untouched); or the write raised after the
\* open truncated the file.  The exception is caught and only printed.
WriteOutcomes(f, n) == {FileWith(Str(n)), f, FileWith(<<>>)}

\* lines 306-329: fetch the latest comic and date it.  A failed request, a bad
\* status or a response without a date raises, and the function returns None.
XkcdFetchLatest ==
    /\ UNCHANGED <<fcVars, mainVars, logVars>>
    /\ pc = "xkcd_fetch"
    /\ \/ /\ xkcd_comic' = NoComic
          /\ pc' = ret
          /\ UNCHANGED <<today, late, comic_num, comic_date, run_today, is_recent>>
       \/ \E midnight \in BOOLEAN :
             \* datetime.now() is read twice (lines 325, 326): midnight may
             \* pass in between
             /\ midnight => (today < MaxDay /\ late)
             /\ today' = IF midnight THEN today + 1 ELSE today
             /\ late' = IF midnight THEN FALSE ELSE late
             /\ comic_num' = latest.num
             /\ comic_date' = latest.day
             /\ run_today' = today
             /\ is_recent' = IsRecent(latest.day, today, today' - 1)
             /\ pc' = "xkcd_read"
             /\ UNCHANGED xkcd_comic
    /\ UNCHANGED <<latest, file, ret, last_shown_num, random_num, batchVars, histVars>>

\* lines 331-338
XkcdReadState ==
    /\ UNCHANGED <<fcVars, mainVars, logVars>>
    /\ pc = "xkcd_read"
    /\ \E ioerr \in BOOLEAN :
          /\ ioerr => file.exists
          /\ last_shown_num' = LastShown(file, ioerr)
          /\ read_error' = ioerr
    /\ reads' = reads + 1
    /\ pc' = "xkcd_decide"
    /\ UNCHANGED <<envVars, ret, comic_num, comic_date, run_today, is_recent,
                   random_num, xkcd_comic, batchVars, newRuns, writes, file0>>

\* lines 340-362: the decision, the save of the marker and the draw
XkcdDecide ==
    /\ UNCHANGED <<fcVars, mainVars, logVars>>
    /\ pc = "xkcd_decide"
    /\ IF ShowLatest(is_recent, comic_num, last_shown_num)
       THEN /\ file' \in WriteOutcomes(file, comic_num)
            /\ writes' = writes + 1
            /\ xkcd_comic' = [kind |-> "new", num |-> comic_num]
            /\ newRuns' = IF newRuns < MaxCount THEN newRuns + 1 ELSE newRuns
            /\ pc' = ret
            /\ UNCHANGED random_num
       ELSE /\ random_num' \in 1..comic_num
            /\ pc' = "xkcd_random"
            /\ UNCHANGED <<file, writes, xkcd_comic, newRuns>>
    /\ UNCHANGED <<today, late, latest, ret, comic_num, comic_date, run_today,
                   is_recent, last_shown_num, batchVars, reads, read_error, file0>>

\* a random fetch that also records the comic it shows in the state file
XkcdFetchRandomSaves ==
    /\ UNCHANGED <<fcVars, mainVars, logVars>>
    /\ pc = "xkcd_random"
    /\ \/ /\ xkcd_comic' = [kind |-> "random", num |-> random_num]
          /\ file' = FileWith(Str(random_num))
       \/ /\ xkcd_comic' = NoComic
          /\ UNCHANGED file
    /\ pc' = ret
    /\ UNCHANGED <<today, late, latest, ret, comic_num, comic_date, run_today, is_recent,
                   last_shown_num, random_num, batchVars, histVars>>

\* lines 364-378: fetch the random comic; a failure raises, and the function
\* returns None (lines 380-382)
XkcdFetchRandom ==
    /\ UNCHANGED <<fcVars, mainVars, logVars>>
    /\ pc = "xkcd_random"
    /\ \/ xkcd_comic' = [kind |-> "random", num |-> random_num]
       \/ xkcd_comic' = NoComic
    /\ pc' = ret
    /\ UNCHANGED <<envVars, ret, comic_num, comic_date, run_today, is_recent,
                   last_shown_num, random_num, batchVars, histVars>>

\* the locals of get_xkcd_comic before it runs
XkcdLocals ==
    /\ comic_num' = 0
    /\ comic_date' = 0
    /\ run_today' = today
    /\ is_recent' = FALSE
    /\ last_shown_num' = None
    /\ random_num' = 0
    /\ xkcd_comic' = NoComic

\* the history of a run that starts
RunHistory ==
    /\ reads' = 0
    /\ writes' = 0
    /\ read_error' = FALSE
    /\ file0' = file

\* a call of get_xkcd_comic on its own
XkcdCall ==
    /\ UNCHANGED <<fcVars, mainVars, logVars>>
    /\ pc \in {"idle", "xkcd_done"}
    /\ pc' = "xkcd_fetch"
    /\ ret' = "xkcd_done"
    /\ XkcdLocals
    /\ RunHistory
    /\ UNCHANGED <<envVars, batchVars, newRuns>>

-----------------------------------------------------------------------------
(* The world between two runs *)

\* time passes, up to some moment past 08:00 of the next day
AdvanceDay ==
    /\ UNCHANGED <<fcVars, mainVars, logVars>>
    /\ pc \in {"idle", "xkcd_done"}
    /\ today < MaxDay
    /\ today' = today + 1
    /\ late' = TRUE
    /\ UNCHANGED <<latest, file, pc, ret, xkcdVars, batchVars, histVars>>

\* xkcd publishes the next comic: numbers only grow
PublishComic ==
    /\ UNCHANGED <<fcVars, mainVars, logVars>>
    /\ pc \in {"idle", "xkcd_done"}
    /\ latest.num < MaxComic
    /\ latest' = [num |-> latest.num + 1, day |-> today]
    /\ newRuns' = 0
    /\ UNCHANGED <<today, late, file, pc, ret, xkcdVars, batchVars,
                   reads, writes, read_error, file0>>

RECURSIVE SeqsUpTo(_, _)
\* the sequences over S of length at most n
SeqsUpTo(S, n) ==
    IF n = 0 THEN {<<>>}
    ELSE LET shorter == SeqsUpTo(S, n - 1)
         IN  shorter \cup {Append(s, c) : s \in shorter, c \in S}

InitProgram ==
    /\ pc = "idle"
    /\ ret = "idle"
    /\ comic_num = 0
    /\ comic_date = 0
    /\ run_today = today
    /\ is_recent = FALSE
    /\ last_shown_num = None
    /\ random_num = 0
    /\ xkcd_comic = NoComic
    /\ users = <<>>
    /\ news_articles = FALSE
    /\ historical_fact = FALSE
    /\ stock_data = FALSE
    /\ movie_recommendation = FALSE
    /\ idx = 0
    /\ success_count = 0
    /\ newRuns = 0
    /\ reads = 0
    /\ writes = 0
    /\ read_error = FALSE
    /\ file0 = file
    /\ scheduled = FALSE
    /\ next_run = 0
    /\ log = << >>
    /\ calls = << >>
    /\ active = 0
    /\ last_tick = -1

\* the environment of a process whose main is not looked at
InitNoMain ==
    /\ late = TRUE
    /\ creds = [weather |-> TRUE, email |-> TRUE, password |-> TRUE]
    /\ run_once = TRUE

\* no forecast is being formatted
InitNoForecast ==
    /\ fpc = "idle"
    /\ lookup = NoLookup
    /\ now_hour = RunHour
    /\ target_date = 0
    /\ forecast_list = <<>>
    /\ next_24h_forecasts = <<>>

InitComic ==
    /\ InitNoForecast
    /\ InitNoMain
    /\ today \in 0..MaxDay
    /\ latest \in {l \in [num : FirstComic..MaxComic, day : 0..MaxDay] : l.day <= today}
    /\ file \in {NoFile} \cup {FileWith(s) : s \in SeqsUpTo(FileChars, MaxFileLen)}
    /\ InitProgram

NextComic ==
    \/ XkcdCall
    \/ XkcdFetchLatest
    \/ XkcdReadState
    \/ XkcdDecide
    \/ XkcdFetchRandom
    \/ AdvanceDay
    \/ PublishComic

SpecComic == InitComic /\ [][NextComic]_vars

-----------------------------------------------------------------------------
(* send_daily_weather_email: one run of the batch *)

\* a row of the CSV file: email and city are TRUE when the column is not empty
UserRows == [email : BOOLEAN, city : BOOLEAN]

\* a validation that forgets the password
CredentialsOkNoPassword(c) == c.weather /\ c.email

\* lines 1128-1134: the weather key, the address and the password are there
CredentialsOk(c) == c.weather /\ c.email /\ c.password

\* the day of the first 08:00 that is still to come
NextEight(day, is_late) == IF is_late THEN day + 1 ELSE day

\* schedule: the job is due when its next run is not in the future
Due == today > next_run \/ (today = next_run /\ late)

\* lines 1125-1149: main up to the call of the task or the scheduler loop
Main ==
    /\ pc = "idle"
    /\ IF ~CredentialsOk(creds)
       THEN /\ pc' = "exit"
            /\ UNCHANGED <<scheduled, next_run>>
       ELSE IF run_once
            THEN /\ pc' = "once"
                 /\ UNCHANGED <<scheduled, next_run>>
            ELSE /\ scheduled' = TRUE
                 /\ next_run' = NextEight(today, late)
                 /\ pc' = "loop"
    /\ UNCHANGED <<envVars, creds, run_once, ret, xkcdVars, batchVars, fcVars,
                   histVars, logVars>>

\* a scheduler with a thread of its own, which also looks at the job while
\* the task sleeps between two recipients
RunPendingInThread ==
    /\ pc = "loop" \/ (pc = "send" /\ scheduled)
    /\ IF Due
       THEN /\ pc' = "pending"
            /\ last_tick' = next_run
       ELSE /\ pc' = IF pc = "loop" THEN "sleep" ELSE pc
            /\ UNCHANGED last_tick
    /\ UNCHANGED <<envVars, mainVars, ret, xkcdVars, batchVars, fcVars, histVars,
                   log, calls, active>>

\* line 1153: schedule.run_pending() calls the job when it is due
RunPending ==
    /\ pc = "loop"
    /\ IF Due
       THEN /\ pc' = "pending"
            /\ last_tick' = next_run
       ELSE /\ pc' = "sleep"
            /\ UNCHANGED last_tick
    /\ UNCHANGED <<envVars, mainVars, ret, xkcdVars, batchVars, fcVars, histVars,
                   log, calls, active>>

\* the clock after the next of its marks (08:00, midnight) has passed
ClockAfterMark ==
    /\ late => today < MaxDay
    /\ today' = IF late THEN today + 1 ELSE today
    /\ late' = ~late

\* line 1154: time.sleep(60) is over; the clock may have passed 08:00 or
\* midnight meanwhile, but not both
Sleep ==
    /\ pc = "sleep"
    /\ pc' = "loop"
    /\ ClockAfterMark \/ UNCHANGED <<today, late>>
    /\ UNCHANGED <<latest, file, mainVars, ret, xkcdVars, batchVars, fcVars, histVars,
                   logVars>>

\* the clock passes 08:00 or midnight over a run, seen after its last sleep
\* (line 1120): the run lasts as long as its requests take to answer
ClockPasses ==
    /\ pc = "send"
    /\ idx = Len(users)
    /\ ClockAfterMark
    /\ UNCHANGED <<latest, file, mainVars, pc, ret, xkcdVars, batchVars, fcVars,
                   histVars, logVars>>

\* lines 1062-1064: the task starts, called by main (line 1142) or by the job
RunTask ==
    /\ UNCHANGED <<fcVars, mainVars>>
    /\ pc \in {"once", "pending"}
    /\ pc' = "load_users"
    /\ users' = <<>>
    /\ news_articles' = FALSE
    /\ historical_fact' = FALSE
    /\ stock_data' = FALSE
    /\ movie_recommendation' = FALSE
    /\ idx' = 0
    /\ success_count' = 0
    /\ XkcdLocals
    /\ RunHistory
    /\ log' = << >>
    /\ calls' = << >>
    /\ active' = active + 1
    /\ UNCHANGED <<envVars, ret, newRuns, last_tick>>

\* a run that fetches the shared content before it looks at the list
LoadUsersFetchesAnyway ==
    /\ UNCHANGED <<fcVars, mainVars>>
    /\ pc = "load_users"
    /\ users' \in SeqsUpTo(UserRows, MaxUsers)
    /\ pc' = "news"
    /\ calls' = Append(calls, "users")
    /\ UNCHANGED <<envVars, ret, xkcdVars, news_articles, historical_fact, stock_data,
                   movie_recommendation, idx, success_count, histVars,
                   log, active, last_tick>>

\* lines 1066-1071: load_user_list; no user (or no file: lines 1022-1027) ends
\* the run
LoadUsers ==
    /\ UNCHANGED <<fcVars, mainVars>>
    /\ pc = "load_users"
    /\ users' \in SeqsUpTo(UserRows, MaxUsers)
    /\ pc' = IF users' = <<>> THEN "done" ELSE "news"
    /\ calls' = Append(calls, "users")
    /\ UNCHANGED <<envVars, ret, xkcdVars, news_articles, historical_fact, stock_data,
                   movie_recommendation, idx, success_count, histVars,
                   log, active, last_tick>>

\* whether the requests of a source carry a timeout: requests.get has none at
\* lines 81, 93, 103 (weather) and 161 (history), smtplib.SMTP none at line
\* 993; timeout=10 at lines 396, 430 (news), 212 (stock), 255, 268 (movie),
\* 310, 366 (comic)
HasTimeout ==
    [weather |-> FALSE, news |-> TRUE, history |-> FALSE, stock |-> TRUE,
     movie |-> TRUE, comic |-> TRUE, smtp |-> FALSE]

\* what an upstream does with a request: it answers well, it answers with an
\* error (or the connection fails), or it never answers
Answers == {"ok", "error", "silent"}

\* what the caller sees: a silent upstream raises requests.Timeout where a
\* timeout is set, and keeps the caller waiting where none is
Seen(source, answer) ==
    IF answer = "silent"
    THEN IF HasTimeout[source] THEN "error" ELSE "waits"
    ELSE answer

\* where a run goes on after a request: nowhere while it waits
AfterRequest(seen, next) == IF seen = "waits" THEN "hung" ELSE next

\* lines 1073-1079: get_top_news_stories returns a list, empty on any failure
GetNews ==
    /\ UNCHANGED <<fcVars, mainVars>>
    /\ pc = "news"
    /\ \E answer \in Answers :
          /\ news_articles' = (Seen("news", answer) = "ok")
          /\ pc' = AfterRequest(Seen("news", answer), "history")
    /\ calls' = Append(calls, "news")
    /\ UNCHANGED <<envVars, ret, xkcdVars, users, historical_fact, stock_data,
                   movie_recommendation, idx, success_count, histVars,
                   log, active, last_tick>>

\* lines 1081-1087: get_historical_fact returns a fact or None
GetHistory ==
    /\ UNCHANGED <<fcVars, mainVars>>
    /\ pc = "history"
    /\ \E answer \in Answers :
          /\ historical_fact' = (Seen("history", answer) = "ok")
          /\ pc' = AfterRequest(Seen("history", answer), "stock")
    /\ calls' = Append(calls, "history")
    /\ UNCHANGED <<envVars, ret, xkcdVars, users, news_articles, stock_data,
                   movie_recommendation, idx, success_count, histVars,
                   log, active, last_tick>>

\* lines 1089-1095: get_stock_market_data returns the data or None
GetStock ==
    /\ UNCHANGED <<fcVars, mainVars>>
    /\ pc = "stock"
    /\ \E answer \in Answers :
          /\ stock_data' = (Seen("stock", answer) = "ok")
          /\ pc' = AfterRequest(Seen("stock", answer), "movie")
    /\ calls' = Append(calls, "stock")
    /\ UNCHANGED <<envVars, ret, xkcdVars, users, news_articles, historical_fact,
                   movie_recommendation, idx, success_count, histVars,
                   log, active, last_tick>>

\* lines 1097-1103: get_movie_recommendation returns a movie or None
GetMovie ==
    /\ UNCHANGED <<fcVars, mainVars>>
    /\ pc = "movie"
    /\ \E answer \in Answers :
          /\ movie_recommendation' = (Seen("movie", answer) = "ok")
          /\ pc' = AfterRequest(Seen("movie", answer), "xkcd")
    /\ calls' = Append(calls, "movie")
    /\ UNCHANGED <<envVars, ret, xkcdVars, users, news_articles, historical_fact,
                   stock_data, idx, success_count, histVars,
                   log, active, last_tick>>

\* lines 1105-1107: the call of get_xkcd_comic, which returns to the loop
GetXkcd ==
    /\ UNCHANGED <<fcVars, mainVars>>
    /\ pc = "xkcd"
    /\ pc' = "xkcd_fetch"
    /\ ret' = "send"
    /\ calls' = Append(calls, "comic")
    /\ UNCHANGED <<envVars, xkcdVars, batchVars, histVars, log, active, last_tick>>

\* an email that shows the heading of the news section without any news
SectionsAlwaysNews(news, history, stock, movie, comic) ==
    {"weather", "news"}
        \cup (IF news /\ stock THEN {"stock"} ELSE {})
        \cup (IF history THEN {"history"} ELSE {})
        \cup (IF movie THEN {"movie"} ELSE {})
        \cup (IF comic.kind # "none" THEN {"comic"} ELSE {})

\* an email whose S&P 500 block stands on its own, as the other sections do
SectionsStockOnItsOwn(news, history, stock, movie, comic) ==
    {"weather"}
        \cup (IF news THEN {"news"} ELSE {})
        \cup (IF stock THEN {"stock"} ELSE {})
        \cup (IF history THEN {"history"} ELSE {})
        \cup (IF movie THEN {"movie"} ELSE {})
        \cup (IF comic.kind # "none" THEN {"comic"} ELSE {})

\* lines 810-964: the sections format_weather_email puts in the email.  The
\* S&P 500 block is built inside the news section (lines 818-836).
Sections(news, history, stock, movie, comic) ==
    {"weather"}
        \cup (IF news THEN {"news"} ELSE {})
        \cup (IF news /\ stock THEN {"stock"} ELSE {})
        \cup (IF history THEN {"history"} ELSE {})
        \cup (IF movie THEN {"movie"} ELSE {})
        \cup (IF comic.kind # "none" THEN {"comic"} ELSE {})

\* a count of the recipients handled, not of the emails sent
NextCountAlways(count, result) == count + 1

\* lines 1117-1118: success_count after send_weather_email_to_user returned result
NextCount(count, result) == IF result THEN count + 1 ELSE count

\* what the three requests of get_weather_data can come to: the current
\* weather can also lack 'coord' (line 86), the One Call API answers 200 or
\* another status, or anything in its try block raises (lines 91-99)
CurrentAnswers == Answers \cup {"malformed"}
OneCallAnswers == {"ok", "non200", "exception", "silent"}
ForecastAnswers == Answers

\* lines 101-110: the 5-day/3-hour forecast, reached when the One Call attempt
\* did not return
ThreeHourly(forecast) ==
    CASE Seen("weather", forecast) = "waits" -> [data |-> "hung", forecast |-> "none"]
      [] Seen("weather", forecast) = "error" -> [data |-> "none", forecast |-> "none"]
      [] OTHER -> [data |-> "ok", forecast |-> "3-hourly"]

\* a lookup whose One Call attempt has no handler of its own: its exception
\* reaches the handler of line 108
WeatherDataBareAttempt(current, onecall, forecast) ==
    CASE Seen("weather", current) = "waits" -> [data |-> "hung", forecast |-> "none"]
      [] Seen("weather", current) = "error" -> [data |-> "none", forecast |-> "none"]
      [] current = "malformed" -> [data |-> "malformed", forecast |-> "none"]
      [] OTHER ->
           CASE onecall = "silent" /\ ~HasTimeout.weather ->
                    [data |-> "hung", forecast |-> "none"]
             [] onecall = "ok" -> [data |-> "ok", forecast |-> "hourly"]
             [] onecall = "exception" -> [data |-> "none", forecast |-> "none"]
             [] OTHER -> ThreeHourly(forecast)

\* lines 67-110: get_weather_data.  A RequestException of the current-weather
\* or of the 3-hourly request gives (None, None); a KeyError at line 86 is not
\* caught; a status other than 200 or any exception of the One Call attempt
\* leads to the 3-hourly request; a request that is never answered never returns
get_weather_data(current, onecall, forecast) ==
    CASE Seen("weather", current) = "waits" -> [data |-> "hung", forecast |-> "none"]
      [] Seen("weather", current) = "error" -> [data |-> "none", forecast |-> "none"]
      [] current = "malformed" -> [data |-> "malformed", forecast |-> "none"]
      [] OTHER ->
           CASE onecall = "silent" /\ ~HasTimeout.weather ->
                    [data |-> "hung", forecast |-> "none"]
             [] onecall = "ok" -> [data |-> "ok", forecast |-> "hourly"]
             [] OTHER -> ThreeHourly(forecast)

\* what a recipient's weather lookup comes to: "ok" returns the data (line 97
\* or 107); "none" is None, None (lines 108-110); "malformed" is a response
\* that lacks a key the code reads (lines 86-87 in get_weather_data, lines
\* 630-641, 660, 689 in format_weather_email), a KeyError caught nowhere;
\* "hung" is a lookup that never returns
WeatherOutcomes ==
    {get_weather_data(current, onecall, forecast).data :
        current \in CurrentAnswers, onecall \in OneCallAnswers,
        forecast \in ForecastAnswers}

\* line 993 onwards: what the SMTP exchange of send_email comes to
SmtpAnswers == Answers

\* the entry of the log for a recipient
Handled(user, weather, attempted, sections, sent) ==
    [email |-> user.email, city |-> user.city, weather |-> weather,
     attempted |-> attempted, sections |-> sections, sent |-> sent]

\* lines 1116-1120 and 1030-1059: one turn of the loop.  A user without email
\* or city is skipped; otherwise the weather is fetched and, when that worked,
\* the email is formatted and sent; the count grows when send_email returns
\* True.  An exception that nothing catches ends the process; a request that
\* is never answered and carries no timeout keeps the turn from ending.
SendToUser ==
    /\ UNCHANGED <<fcVars, mainVars>>
    /\ pc = "send"
    /\ idx < Len(users)
    /\ LET user == users[idx + 1]
       IN  IF ~user.email \/ ~user.city
           THEN /\ log' = Append(log, Handled(user, "unasked", FALSE, {}, FALSE))
                /\ success_count' = NextCount(success_count, FALSE)
                /\ pc' = "send"
           ELSE \E weather \in WeatherOutcomes :
                   CASE weather = "none" ->
                            /\ log' = Append(log, Handled(user, weather, FALSE, {}, FALSE))
                            /\ success_count' = NextCount(success_count, FALSE)
                            /\ pc' = "send"
                     [] weather = "malformed" ->
                            /\ log' = Append(log, Handled(user, weather, FALSE, {}, FALSE))
                            /\ UNCHANGED success_count
                            /\ pc' = "crashed"
                     [] weather = "hung" ->
                            /\ UNCHANGED <<log, success_count>>
                            /\ pc' = "hung"
                     [] weather = "ok" ->
                            \E smtp \in SmtpAnswers :
                               IF Seen("smtp", smtp) = "waits"
                               THEN /\ UNCHANGED <<log, success_count>>
                                    /\ pc' = "hung"
                               ELSE /\ log' = Append(log,
                                          Handled(user, weather, TRUE,
                                              Sections(news_articles, historical_fact,
                                                       stock_data, movie_recommendation,
                                                       xkcd_comic),
                                              smtp = "ok"))
                                    /\ success_count' = NextCount(success_count,
                                                                  smtp = "ok")
                                    /\ pc' = "send"
    /\ idx' = IF pc' = "hung" THEN idx ELSE idx + 1
    /\ UNCHANGED <<envVars, ret, xkcdVars, users, news_articles, historical_fact,
                   stock_data, movie_recommendation, histVars, calls, active, last_tick>>

\* a run that saves the marker again once the emails are out
CompleteRunSaves ==
    /\ UNCHANGED <<fcVars, mainVars, logVars>>
    /\ pc = "send"
    /\ idx = Len(users)
    /\ pc' = "done"
    /\ IF xkcd_comic.kind = "new"
       THEN /\ file' = FileWith(Str(xkcd_comic.num))
            /\ writes' = writes + 1
       ELSE UNCHANGED <<file, writes>>
    /\ UNCHANGED <<today, late, latest, ret, xkcdVars, batchVars, newRuns, reads,
                   read_error, file0>>

\* line 1122: the loop is over and the run reports
CompleteRun ==
    /\ UNCHANGED <<fcVars, mainVars, logVars>>
    /\ pc = "send"
    /\ idx = Len(users)
    /\ pc' = "done"
    /\ UNCHANGED <<envVars, ret, xkcdVars, batchVars, histVars>>

\* the task returns: main ends (after line 1142), or schedule plans the job's
\* next run and the loop goes on (lines 1153-1154)
Return ==
    /\ pc = "done"
    /\ active' = active - 1
    /\ IF run_once
       THEN /\ pc' = "exit"
            /\ UNCHANGED next_run
       ELSE /\ pc' = "sleep"
            /\ next_run' = NextEight(today, late)
    /\ UNCHANGED <<envVars, creds, run_once, scheduled, ret, xkcdVars, batchVars,
                   fcVars, histVars, log, calls, last_tick>>

Init ==
    /\ InitNoForecast
    /\ today = MaxDay - 1
    /\ late \in BOOLEAN
    /\ creds \in [weather : BOOLEAN, email : BOOLEAN, password : BOOLEAN]
    /\ run_once \in BOOLEAN
    /\ latest = [num |-> BatchComic, day |-> MaxDay - 1]
    /\ file \in {NoFile, FileWith(Str(BatchComic))}
    /\ InitProgram

Next ==
    \/ Main
    \/ RunPending
    \/ Sleep
    \/ ClockPasses
    \/ RunTask
    \/ LoadUsers
    \/ GetNews
    \/ GetHistory
    \/ GetStock
    \/ GetMovie
    \/ GetXkcd
    \/ XkcdFetchLatest
    \/ XkcdReadState
    \/ XkcdDecide
    \/ XkcdFetchRandom
    \/ SendToUser
    \/ CompleteRun
    \/ Return

Spec == Init /\ [][Next]_vars

-----------------------------------------------------------------------------
(* Numbers of the forecast: Python floats, modelled as exact fractions *)

Abs(i) == IF i < 0 THEN -i ELSE i

RECURSIVE GCD(_, _)
GCD(a, b) == IF b = 0 THEN a ELSE GCD(b, a % b)

\* the fraction n/d (d # 0) in lowest terms, with a positive denominator
Frac(n, d) ==
    LET g == GCD(Abs(n), Abs(d))
        sgn == IF d < 0 THEN -1 ELSE 1
    IN  [n |-> (sgn * n) \div g, d |-> (sgn * d) \div g]

R(i) == [n |-> i, d |-> 1]
RAdd(x, y) == Frac(x.n * y.d + y.n * x.d, x.d * y.d)
RSub(x, y) == Frac(x.n * y.d - y.n * x.d, x.d * y.d)
RMul(x, y) == Frac(x.n * y.n, x.d * y.d)
RLess(x, y) == x.n * y.d < y.n * x.d
RLeq(x, y) == x.n * y.d <= y.n * x.d

-----------------------------------------------------------------------------
(* format_weather_email: the forecast window and series; interpolate_to_hourly *)

SecondsPerHour == 3600

\* line 654: target_date.replace(hour=8, ...)
StartHour == 8
\* line 655: target_date.replace(hour=22, ...)
EndHour == 22
\* line 671: time_diff < 7200
HourlyLimit == 7200
\* a step of one hour between two ticks
TickStepHourly == SecondsPerHour
\* line 532: current_hour += timedelta(hours=2)
TickStep == 7200

\* lines 654-658, in seconds from the midnight of target_date
start_timestamp == StartHour * SecondsPerHour
end_timestamp == EndHour * SecondsPerHour

\* a sample of forecast_data['list']: dt, main.temp, main.feels_like,
\* weather[0] (named by its id) and pop
Sample(dt, reading) ==
    [dt |-> dt, temp |-> reading.temp, feels_like |-> reading.feels_like,
     id |-> reading.id, pop |-> reading.pop]

\* line 663: start_timestamp <= f['dt'] <= end_timestamp
InFilter(f, start, end) == start <= f.dt /\ f.dt <= end

\* line 663
Filtered(list, start, end) == SelectSeq(list, LAMBDA f : InFilter(f, start, end))

\* an hourly test with the wrong limit: one hour
IsHourlyBelowOneHour(filtered) == filtered[2].dt - filtered[1].dt < SecondsPerHour

\* an hourly test that takes the limit itself as hourly
IsHourlyInclusive(filtered) == filtered[2].dt - filtered[1].dt <= HourlyLimit

\* lines 670-671: is_hourly
IsHourly(filtered) == filtered[2].dt - filtered[1].dt < HourlyLimit

RECURSIVE Scan(_, _, _, _, _)
\* lines 465-477: the for loop over forecasts from index i on, with
\* before_forecast and after_forecast held as indices b and a (0 is None)
Scan(forecasts, t, i, b, a) ==
    IF i > Len(forecasts) THEN <<b, a>>
    ELSE IF forecasts[i].dt <= t
         THEN Scan(forecasts, t, i + 1, i, IF i + 1 <= Len(forecasts) THEN i + 1 ELSE a)
         ELSE <<IF b = 0 THEN i ELSE b, i>>

\* an interpolation that starts from the wrong end
LerpFromAfter(before, after, factor) == RAdd(after, RMul(RSub(after, before), factor))

\* lines 489, 494, 505: before + (after - before) * factor
Lerp(before, after, factor) == RAdd(before, RMul(RSub(after, before), factor))

\* a copy that keeps the timestamp of the sample
CopyVerbatim(forecast, t) == forecast

\* lines 520-521, 524-525, 528-529: forecast.copy() with 'dt' replaced
CopyAt(forecast, t) == [forecast EXCEPT !.dt = t]

\* a choice of the weather condition that gives a tie to before
WeatherInfoTieBefore(before, after, factor) ==
    IF RLeq(factor, Frac(1, 2)) THEN before.id ELSE after.id

\* lines 497-500: the closer forecast's weather condition
WeatherInfo(before, after, factor) ==
    IF RLess(factor, Frac(1, 2)) THEN before.id ELSE after.id

\* lines 479-529: the entries (one or none) appended for the tick t
EntryAt(forecasts, t) ==
    LET ba == Scan(forecasts, t, 1, 0, 0)
        b == ba[1]
        a == ba[2]
    IN  IF b # 0 /\ a # 0
        THEN LET before == forecasts[b]
                 after == forecasts[a]
                 time_diff == after.dt - before.dt
             IN  IF time_diff > 0
                 THEN LET factor == Frac(t - before.dt, time_diff)
                          weather_info == WeatherInfo(before, after, factor)
                      IN  << [dt |-> t,
                              temp |-> Lerp(before.temp, after.temp, factor),
                              feels_like |-> Lerp(before.feels_like, after.feels_like, factor),
                              id |-> weather_info,
                              pop |-> Lerp(before.pop, after.pop, factor)] >>
                 ELSE << CopyAt(before, t) >>
        ELSE IF b # 0 THEN << CopyAt(forecasts[b], t) >>
        ELSE IF a # 0 THEN << CopyAt(forecasts[a], t) >>
        ELSE << >>

RECURSIVE InterpolateFrom(_, _, _)
\* lines 461-534: the while loop from current_hour on
InterpolateFrom(forecasts, current_hour, end_time) ==
    IF current_hour <= end_time
    THEN EntryAt(forecasts, current_hour)
             \o InterpolateFrom(forecasts, current_hour + TickStep, end_time)
    ELSE << >>

\* lines 454-534; line 459 puts start_time back on the hour
interpolate_to_hourly(forecasts, start_time, end_time) ==
    InterpolateFrom(forecasts, start_time - (start_time % SecondsPerHour), end_time)

\* a series that forgets the filter when the data is hourly
SeriesUnfiltered(list, start, end) ==
    LET filtered_forecasts == Filtered(list, start, end)
    IN  IF Len(filtered_forecasts) > 0
        THEN IF Len(filtered_forecasts) > 1
             THEN IF IsHourly(filtered_forecasts)
                  THEN list
                  ELSE interpolate_to_hourly(filtered_forecasts, start, end)
             ELSE filtered_forecasts
        ELSE << >>

\* a series interpolated from the whole list, the samples outside the window
\* included
SeriesFromWholeList(list, start, end) ==
    LET filtered_forecasts == Filtered(list, start, end)
    IN  IF Len(filtered_forecasts) > 0
        THEN IF Len(filtered_forecasts) > 1
             THEN IF IsHourly(filtered_forecasts)
                  THEN filtered_forecasts
                  ELSE interpolate_to_hourly(list, start, end)
             ELSE filtered_forecasts
        ELSE << >>

\* lines 660-682: next_24h_forecasts
Series(list, start, end) ==
    LET filtered_forecasts == Filtered(list, start, end)
    IN  IF Len(filtered_forecasts) > 0
        THEN IF Len(filtered_forecasts) > 1
             THEN IF IsHourly(filtered_forecasts)
                  THEN filtered_forecasts
                  ELSE interpolate_to_hourly(filtered_forecasts, start, end)
             ELSE filtered_forecasts
        ELSE << >>

\* line 649: now.hour < 10
TodayBefore == 10

\* lines 649-652: target_date, in days from the day of the run
TargetDate(hour) == IF hour < TodayBefore THEN 0 ELSE 1

\* lines 645-682: the day of the window is chosen from the hour of the run,
\* then the series is built; the timestamps of the forecast are counted from
\* the midnight of that day
FormatForecast ==
    /\ fpc = "input"
    /\ target_date' = TargetDate(now_hour)
    /\ next_24h_forecasts' = Series(forecast_list, start_timestamp, end_timestamp)
    /\ fpc' = "shown"
    /\ UNCHANGED <<envVars, mainVars, pc, ret, xkcdVars, batchVars, lookup, now_hour,
                   forecast_list, histVars, logVars>>

\* the hours (of the target day) the samples of the model are taken at
SampleHours == {7, 8, 9, 10, 11, 12, 13, 21, 22, 23}

\* the values the samples of the model carry
Readings ==
    { [temp |-> R(50),        feels_like |-> R(47), id |-> 800, pop |-> R(0)],
      [temp |-> R(56),        feels_like |-> R(58), id |-> 500, pop |-> Frac(1, 2)],
      [temp |-> Frac(107, 2), feels_like |-> R(53), id |-> 803, pop |-> R(1)] }

Samples == {Sample(h * SecondsPerHour, r) : h \in SampleHours, r \in Readings}

\* l is in ascending order of dt
Ascending(l) == \A i \in 1..(Len(l) - 1) : l[i].dt <= l[i + 1].dt

RECURSIVE SortedListsUpTo(_)
\* the lists of at most n samples in ascending order of dt, as the API
\* returns them
SortedListsUpTo(n) ==
    IF n = 0 THEN {<<>>}
    ELSE LET shorter == SortedListsUpTo(n - 1)
         IN  shorter \cup
             {l \in {Append(k, f) : k \in shorter, f \in Samples} : Ascending(l)}

\* the hour the first sample of a regular forecast is taken at, and the hours
\* between two samples: 1 for the One Call API (line 97), 3 for the 5-day
\* forecast (lines 102-107)
GridFirstHours == {6, 7, 8}
GridSteps == {1, 3}

\* the regular forecast from the hour first on, every step hours up to
\* GridEndHour, whose readings alternate between r1 and r2
Grid(first, step, r1, r2) ==
    [i \in 1..(((GridEndHour - first) \div step) + 1) |->
        Sample((first + (i - 1) * step) * SecondsPerHour,
               IF i % 2 = 1 THEN r1 ELSE r2)]

\* the forecasts get_weather_data returns: a regular one, or any short list
ForecastLists(n) ==
    SortedListsUpTo(n) \cup
        {Grid(first, step, r1, r2) :
            first \in GridFirstHours, step \in GridSteps, r1 \in Readings, r2 \in Readings}

\* line 1049: get_weather_data is called and its three requests are answered
WeatherLookup ==
    /\ fpc = "idle"
    /\ \E current \in CurrentAnswers, onecall \in OneCallAnswers,
          forecast \in ForecastAnswers :
          lookup' = [current |-> current, onecall |-> onecall, forecast |-> forecast,
                     result |-> get_weather_data(current, onecall, forecast)]
    /\ fpc' = "looked"
    /\ UNCHANGED <<envVars, mainVars, pc, ret, xkcdVars, batchVars, now_hour,
                   target_date, forecast_list, next_24h_forecasts, histVars, logVars>>

\* lines 1049-1059: get_weather_data returns and its locals are gone; with
\* data the email is formatted next, with None, None no email is made
WeatherReturns ==
    /\ fpc = "looked"
    /\ lookup.result.data \in {"ok", "none"}
    /\ fpc' = IF lookup.result.data = "ok" THEN "fetched" ELSE "idle"
    /\ lookup' = NoLookup
    /\ UNCHANGED <<envVars, mainVars, pc, ret, xkcdVars, batchVars, now_hour,
                   target_date, forecast_list, next_24h_forecasts, histVars, logVars>>

\* line 1053: the forecast get_weather_data returned is handed to
\* format_weather_email
FetchForecast ==
    /\ fpc = "fetched"
    /\ forecast_list' \in ForecastLists(MaxSamples)
    /\ next_24h_forecasts' = << >>
    /\ fpc' = "input"
    /\ UNCHANGED <<envVars, mainVars, pc, ret, xkcdVars, batchVars, lookup, now_hour,
                   target_date, histVars, logVars>>

\* format_weather_email returns: its locals are gone
ReturnForecast ==
    /\ fpc = "shown"
    /\ target_date' = 0
    /\ forecast_list' = << >>
    /\ next_24h_forecasts' = << >>
    /\ fpc' = "idle"
    /\ UNCHANGED <<envVars, mainVars, pc, ret, xkcdVars, batchVars, lookup, now_hour,
                   histVars, logVars>>

InitForecast ==
    /\ today = 0
    /\ latest = [num |-> FirstComic, day |-> 0]
    /\ file = NoFile
    /\ InitProgram
    /\ InitNoForecast
    /\ InitNoMain

NextForecast ==
    WeatherLookup \/ WeatherReturns \/ FetchForecast \/ FormatForecast
        \/ ReturnForecast

SpecForecast == InitForecast /\ [][NextForecast]_vars

\* the hours of the day
Hours == 0..23

\* format_weather_email called at any hour of the day, with no sample or one
InitWindow ==
    /\ today = 0
    /\ latest = [num |-> FirstComic, day |-> 0]
    /\ file = NoFile
    /\ InitProgram
    /\ InitNoMain
    /\ fpc = "input"
    /\ lookup = NoLookup
    /\ now_hour \in Hours
    /\ target_date = 0
    /\ forecast_list \in SortedListsUpTo(1)
    /\ next_24h_forecasts = << >>

NextWindow == FormatForecast \/ ReturnForecast

SpecWindow == InitWindow /\ [][NextWindow]_vars

-----------------------------------------------------------------------------
(* Properties of the comic deduplicator *)

\* the state file has been read and the decision of line 341 has been taken
XkcdDecided == reads = 1 /\ pc # "xkcd_decide"

\* get_xkcd_comic has returned from a run that got as far as the decision
XkcdReturned == reads = 1 /\ pc \notin {"xkcd_decide", "xkcd_random"}

\* the else branch of line 359 was taken: a number in [1, latest] was drawn,
\* nothing was saved, and the value returned is that comic, labelled random
\* (or None when fetching it failed)
RandomDecision ==
    /\ random_num \in 1..comic_num
    /\ writes = 0
    /\ XkcdReturned =>
          \/ xkcd_comic = [kind |-> "random", num |-> random_num]
          \/ xkcd_comic = NoComic

\* the then branch of line 341 was taken
NewDecision ==
    /\ random_num = 0
    /\ xkcd_comic = [kind |-> "new", num |-> comic_num]

\* the number the state file holds, None when it holds none
PersistedMarker == LastShown(file, FALSE)

\* the published date is the run's today or the day before
PublishedTodayOrYesterday == comic_date \in {run_today - 1, run_today}

\* C1: the "new" label is produced for a comic number at most once across runs:
\* after a run returned comic N as new, no later run whose latest comic is
\* still N returns it as new again.
C1_NewAtMostOnce == newRuns <= 1

\* C2: "new" is returned only for a latest comic published today or yesterday;
\* for any other published date (3 days ago, say) the run takes the random
\* fallback, whatever the marker is.
C2_NewOnlyIfRecent ==
    /\ xkcd_comic.kind = "new" => PublishedTodayOrYesterday
    /\ (XkcdDecided /\ ~PublishedTodayOrYesterday) => RandomDecision

C2_Witness ==
    /\ XkcdReturned
    /\ run_today - comic_date = 3
    /\ last_shown_num = Some(comic_num)
    /\ xkcd_comic.kind = "random"

\* C3: whenever is_recent holds and the latest number differs from the marker
\* (no marker included), the decision is "new" and after the run the persisted
\* marker equals the latest number.
C3_NewAndMarkerSaved ==
    (XkcdReturned /\ is_recent /\ Some(comic_num) # last_shown_num)
        => (NewDecision /\ PersistedMarker = Some(comic_num))

\* C4: whenever the latest comic is not recent or its number equals the marker,
\* the state file is left as it was and the decision is a random comic with a
\* number in [1, latest number], also when that number is the latest one.
C4_RandomLeavesMarker ==
    (XkcdDecided /\ (~is_recent \/ Some(comic_num) = last_shown_num))
        => (RandomDecision /\ file = file0)

C4_Witness ==
    /\ XkcdReturned
    /\ ~is_recent
    /\ last_shown_num # Some(comic_num)
    /\ xkcd_comic = [kind |-> "random", num |-> comic_num]
    /\ file = file0

\* the text is some digits, with nothing but blanks before and after them
MarkerText(c) ==
    \E i, j \in 1..Len(c) :
        /\ i <= j
        /\ \A k \in 1..Len(c) :
              IF k < i \/ k > j THEN c[k] = " "
              ELSE \E d \in 1..Len(DigitChars) : c[k] = DigitChars[d]

\* the state file of the run was missing, unreadable or held no number
MarkerUnusable == ~file0.exists \/ read_error \/ ~MarkerText(file0.content)

\* C5: a missing or corrupt (unreadable or non-integer) state file is treated
\* as no marker: the run goes on, and decides as it does without a marker
\* (new when the latest comic is recent, random otherwise).
C5_CorruptMarkerIsNone ==
    (XkcdDecided /\ MarkerUnusable) =>
        /\ last_shown_num = None
        /\ IF is_recent THEN NewDecision ELSE RandomDecision

C5_Witness ==
    /\ XkcdReturned
    /\ file0.exists /\ ~read_error /\ ~MarkerText(file0.content)
    /\ file0.content # <<>>
    /\ is_recent
    /\ xkcd_comic = [kind |-> "new", num |-> comic_num]

-----------------------------------------------------------------------------
(* Properties of the marker file within a run of the batch *)

\* C6 as stated: every run reads the marker once (at its start) and writes it
\* at most once.
C6_ReadOncePerRun == pc = "done" => (reads = 1 /\ writes <= 1)

\* C6: within one run the marker is read at most once, by the comic step of a
\* run that has recipients, and written at most once, after that read and by
\* the decision alone; no other step changes the file.
C6_ReadWriteAtMostOnce ==
    [][ /\ reads' > reads => (reads = 0 /\ pc = "xkcd_read" /\ users # <<>>)
        /\ writes' > writes => (writes = 0 /\ reads = 1 /\ pc = "xkcd_decide")
        /\ file' # file => writes' > writes ]_vars

C6_Witness ==
    /\ pc = "done"
    /\ reads = 1
    /\ writes = 1
    /\ file # file0

-----------------------------------------------------------------------------
(* Properties of the forecast series *)

\* format_weather_email has computed the series of forecast_list
Shown == fpc = "shown"

\* the samples of the input whose timestamp lies in the window, in order
InWindowSamples ==
    SelectSeq(forecast_list,
              LAMBDA f : f.dt >= start_timestamp /\ f.dt <= end_timestamp)

\* the gap between the first two samples in the window
FirstGap == InWindowSamples[2].dt - InWindowSamples[1].dt

TwoHours == 2 * SecondsPerHour

\* the 2-hour ticks of the window: 08:00, 10:00, .., 22:00
WindowTicks ==
    {t \in start_timestamp..end_timestamp : (t - start_timestamp) % TwoHours = 0}

\* the series has exactly one entry per tick of the window, in ascending order
TickSeries(series) ==
    /\ Len(series) = Cardinality(WindowTicks)
    /\ \A k \in 1..Len(series) : series[k].dt = start_timestamp + (k - 1) * TwoHours

\* C7 as stated: a first gap of at most 2 hours, 7200 s included, gives the
\* samples in the window, unchanged.
C7_RegularUpToTwoHours ==
    (Shown /\ Len(InWindowSamples) >= 2 /\ FirstGap <= TwoHours)
        => next_24h_forecasts = InWindowSamples

\* C7: when the gap between the first two samples in the window is less than 2
\* hours (7200 s itself is not), the series is exactly the samples whose
\* timestamp lies in the window, unchanged and in order.
C7_RegularBelowTwoHours ==
    (Shown /\ Len(InWindowSamples) >= 2 /\ FirstGap < TwoHours)
        => next_24h_forecasts = InWindowSamples

C7_Witness ==
    /\ Shown
    /\ Len(InWindowSamples) >= 2
    /\ FirstGap < TwoHours
    /\ Len(forecast_list) > Len(InWindowSamples)
    /\ next_24h_forecasts = InWindowSamples

\* every two consecutive samples of the input are related by Gap
AllGaps(Gap(_)) ==
    \A i \in 1..(Len(forecast_list) - 1) :
        Gap(forecast_list[i + 1].dt - forecast_list[i].dt)

\* C8 as stated: for a sorted list of at least 2 samples spaced at least 2 hours
\* apart, the series is the subset of the samples in the window, unmodified.
C8_SpacedAtLeastTwoHours ==
    (Shown /\ Len(forecast_list) >= 2 /\ AllGaps(LAMBDA g : g >= TwoHours))
        => next_24h_forecasts = InWindowSamples

\* C8: for a sorted list of at least 2 samples spaced less than 2 hours apart,
\* the series is the subset of the samples in the window, unmodified.
C8_SpacedBelowTwoHours ==
    (Shown /\ Len(forecast_list) >= 2 /\ AllGaps(LAMBDA g : g < TwoHours))
        => next_24h_forecasts = InWindowSamples

C8_Witness ==
    /\ Shown
    /\ Len(forecast_list) = MaxSamples
    /\ AllGaps(LAMBDA g : g < TwoHours /\ g > 0)
    /\ Len(InWindowSamples) >= 2
    /\ next_24h_forecasts = InWindowSamples

\* C9 as stated: for a non-empty set of samples in the window the series has an
\* entry at every 2-hour tick from 08:00 to 22:00, in ascending order.
C9_CoversEveryTick ==
    (Shown /\ Len(InWindowSamples) >= 1) => TickSeries(next_24h_forecasts)

\* C9: for at least two samples in the window, the first two of them 2 hours or
\* more apart, the series has exactly one entry at every 2-hour tick from 08:00
\* to 22:00, both included, in ascending order.
C9_InterpolatedCoversEveryTick ==
    (Shown /\ Len(InWindowSamples) >= 2 /\ FirstGap >= TwoHours)
        => TickSeries(next_24h_forecasts)

C9_Witness ==
    /\ Shown
    /\ Len(InWindowSamples) >= 2
    /\ FirstGap = TwoHours
    /\ InWindowSamples[1].dt \notin WindowTicks
    /\ TickSeries(next_24h_forecasts)

\* x lies between a and b, inclusive
Between(a, x, b) ==
    \/ RLeq(a, x) /\ RLeq(x, b)
    \/ RLeq(b, x) /\ RLeq(x, a)

\* the entry e of the series stands at a tick strictly between the timestamps
\* of the input samples i and i + 1
TickBetween(e, i) ==
    /\ e.dt \in WindowTicks
    /\ forecast_list[i].dt < e.dt
    /\ e.dt < forecast_list[i + 1].dt

\* C10: the temperature emitted at a tick that falls strictly between two
\* consecutive samples lies between their temperatures, inclusive; so do
\* feels-like and the precipitation probability, which stays in 0..1.
C10_InterpolatedWithinBounds ==
    Shown =>
        \A k \in 1..Len(next_24h_forecasts) :
            LET e == next_24h_forecasts[k]
            IN  /\ \A i \in 1..(Len(forecast_list) - 1) :
                      TickBetween(e, i) =>
                          /\ Between(forecast_list[i].temp, e.temp,
                                     forecast_list[i + 1].temp)
                          /\ Between(forecast_list[i].feels_like, e.feels_like,
                                     forecast_list[i + 1].feels_like)
                          /\ Between(forecast_list[i].pop, e.pop,
                                     forecast_list[i + 1].pop)
                /\ Between(R(0), e.pop, R(1))

\* x lies strictly between a and b
StrictlyBetween(a, x, b) ==
    \/ RLess(a, x) /\ RLess(x, b)
    \/ RLess(b, x) /\ RLess(x, a)

C10_Witness ==
    /\ Shown
    /\ \E k \in 1..Len(next_24h_forecasts) :
          \E i \in 1..(Len(forecast_list) - 1) :
              LET e == next_24h_forecasts[k]
              IN  /\ TickBetween(e, i)
                  /\ StrictlyBetween(forecast_list[i].temp, e.temp,
                                     forecast_list[i + 1].temp)
                  /\ StrictlyBetween(forecast_list[i].feels_like, e.feels_like,
                                     forecast_list[i + 1].feels_like)
                  /\ StrictlyBetween(forecast_list[i].pop, e.pop,
                                     forecast_list[i + 1].pop)

\* the series comes from interpolate_to_hourly (line 676)
Interpolated == Shown /\ Len(InWindowSamples) >= 2 /\ FirstGap >= TwoHours

\* the samples handed to interpolate_to_hourly with a timestamp <= t, and
\* those with a timestamp > t (positions in InWindowSamples)
NotAfter(t) == {i \in 1..Len(InWindowSamples) : InWindowSamples[i].dt <= t}
After(t) == {i \in 1..Len(InWindowSamples) : InWindowSamples[i].dt > t}

\* the latest sample with a timestamp <= t, the earliest with a timestamp > t
Latest(t) == InWindowSamples[CHOOSE i \in NotAfter(t) : \A j \in NotAfter(t) : j <= i]
Earliest(t) == InWindowSamples[CHOOSE i \in After(t) : \A j \in After(t) : i <= j]

\* the entries of the series with the timestamp t
EntriesAt(t) ==
    {next_24h_forecasts[k] : k \in {j \in 1..Len(next_24h_forecasts) :
                                       next_24h_forecasts[j].dt = t}}

\* before + (after - before) * factor, written out
Weighted(x, y, num, den) ==
    Frac(x.n * y.d * den + (y.n * x.d - x.n * y.d) * num, x.d * y.d * den)

\* the entry the rule of interpolation gives at t between before and after
Blend(before, after, t) ==
    LET num == t - before.dt
        den == after.dt - before.dt
    IN  [dt |-> t,
         temp |-> Weighted(before.temp, after.temp, num, den),
         feels_like |-> Weighted(before.feels_like, after.feels_like, num, den),
         id |-> IF 2 * num < den THEN before.id ELSE after.id,
         pop |-> Weighted(before.pop, after.pop, num, den)]

\* the scenario of two samples 3 hours apart and a window of those 3 hours
ScenarioSamples ==
    << [dt |-> 0, temp |-> R(50), feels_like |-> R(47), id |-> 800, pop |-> R(0)],
       [dt |-> 3 * SecondsPerHour, temp |-> R(56), feels_like |-> R(58), id |-> 500,
        pop |-> Frac(1, 2)] >>

ScenarioSeries == interpolate_to_hourly(ScenarioSamples, 0, 3 * SecondsPerHour)

\* C11: in the interpolation path, at a tick t that has a latest sample before
\* with timestamp <= t and an earliest sample after with timestamp > t, the one
\* entry emitted has timestamp t, the numeric fields
\* before + (after - before) * factor with
\* factor = (t - before.timestamp) / (after.timestamp - before.timestamp), and
\* the weather code of before when factor < 0.5, of after otherwise (0.5 picks
\* after; factor 0 reproduces before).  Samples (0, 50) and (10800, 56) with the
\* window 0..10800 give the ticks 0 and 7200, the latter with factor 2/3.
C11_InterpolatesBetweenNeighbours ==
    /\ Interpolated =>
          \A t \in WindowTicks :
              (NotAfter(t) # {} /\ After(t) # {}) =>
                  /\ EntriesAt(t) = {Blend(Latest(t), Earliest(t), t)}
                  /\ Latest(t).dt = t => EntriesAt(t) = {Latest(t)}
    /\ Len(ScenarioSeries) = 2
    /\ ScenarioSeries[1] = ScenarioSamples[1]
    /\ ScenarioSeries[2] = [dt |-> 2 * SecondsPerHour, temp |-> R(54),
                            feels_like |-> Frac(163, 3), id |-> 500,
                            pop |-> Frac(1, 3)]

C11_Witness ==
    /\ Interpolated
    /\ \E t \in WindowTicks :
          /\ NotAfter(t) # {} /\ After(t) # {}
          /\ 2 * (t - Latest(t).dt) = Earliest(t).dt - Latest(t).dt
          /\ Latest(t).id # Earliest(t).id
          /\ \E e \in EntriesAt(t) : e.id = Earliest(t).id /\ e.temp # Earliest(t).temp
    /\ \E t \in WindowTicks :
          /\ NotAfter(t) # {} /\ After(t) # {}
          /\ Latest(t).dt = t
          /\ Latest(t) \in EntriesAt(t)

-----------------------------------------------------------------------------
(* Properties of main and of a run of the batch *)

\* the weather key, the sender address or the password is absent
CredentialMissing == ~creds.weather \/ ~creds.email \/ ~creds.password

\* nothing has been done: no list loaded, no source fetched, no recipient
\* handled, the marker neither read nor written, no job registered
NoWork ==
    /\ calls = << >>
    /\ log = << >>
    /\ active = 0
    /\ reads = 0 /\ writes = 0 /\ file = file0
    /\ ~scheduled

\* C14: when the weather key, the sender address or the password is absent,
\* the process exits before any work: no recipient list is loaded, no upstream
\* is fetched, the marker is neither read nor written, no email is sent and no
\* schedule is registered.
C14_ExitsBeforeAnyWork ==
    CredentialMissing => (pc \in {"idle", "exit"} /\ NoWork)

C14_Witness ==
    /\ pc = "exit"
    /\ creds = [weather |-> TRUE, email |-> TRUE, password |-> FALSE]
    /\ ~run_once
    /\ NoWork

\* the recipients of the log whose email was accepted by the SMTP server
SentTo == {k \in 1..Len(log) : log[k].sent}

\* the recipient has no address, no city, or no weather could be had for them
Unserved(e) == ~e.email \/ ~e.city \/ e.weather \in {"none", "malformed"}

\* C15: a recipient with a missing email address, a missing city or a failed
\* weather lookup receives no email and is not counted as a success, and the
\* run goes on with the recipients after them.
C15_SkipsAndGoesOn ==
    /\ \A k \in 1..Len(log) :
          Unserved(log[k]) =>
              /\ ~log[k].attempted /\ ~log[k].sent
              /\ k = Len(log) => pc # "crashed"
    /\ pc # "crashed" => success_count = Cardinality(SentTo)
    /\ pc = "done" => Len(log) = Len(users)

\* the enrichment sources that failed or returned nothing in this run
FailedSources ==
    (IF news_articles THEN {} ELSE {"news"})
        \cup (IF historical_fact THEN {} ELSE {"history"})
        \cup (IF stock_data THEN {} ELSE {"stock"})
        \cup (IF movie_recommendation THEN {} ELSE {"movie"})
        \cup (IF xkcd_comic.kind = "none" THEN {"comic"} ELSE {})

\* the five enrichment sources, in the order the run asks them
EnrichmentCalls == <<"news", "history", "stock", "movie", "comic">>

\* the recipient has an address and a city, and their weather was fetched
Eligible(e) == e.email /\ e.city /\ e.weather = "ok"

\* C16: whichever enrichment sources (news, history, stock, movie, comic) fail
\* or return nothing, the run goes on to the recipients, and the email of each
\* eligible recipient is handed to the SMTP server, with the weather and
\* without the section of any source that failed.
C16_SentWithoutFailedSections ==
    /\ (pc = "send" \/ log # << >>) => calls = <<"users">> \o EnrichmentCalls
    /\ \A k \in 1..Len(log) :
          Eligible(log[k]) =>
              /\ log[k].attempted
              /\ "weather" \in log[k].sections
              /\ log[k].sections \cap FailedSources = {}

C16_Witness ==
    /\ pc = "done"
    /\ FailedSources = {"news", "history", "stock", "movie", "comic"}
    /\ Len(log) = 2
    /\ \A k \in 1..Len(log) :
          Eligible(log[k]) /\ log[k].sent /\ log[k].sections = {"weather"}

\* the email of the recipient was handed to the SMTP server, which failed
SmtpFailed(e) == e.attempted /\ ~e.sent

\* C17: a failed SMTP send does not abort the batch: the loop goes on with the
\* next recipient, a run that completes has handled every recipient, and the
\* success count is the number of recipients whose send succeeded.
C17_SmtpFailureDoesNotAbort ==
    /\ (log # << >> /\ SmtpFailed(log[Len(log)])) =>
          /\ pc # "crashed"
          /\ pc = "send" => idx = Len(log)
    /\ pc \in {"send", "done"} => success_count = Cardinality(SentTo)
    /\ pc = "done" => idx = Len(users) /\ (users # << >> => Len(log) = Len(users))

C17_Witness ==
    /\ pc = "done"
    /\ Len(log) = 2
    /\ SmtpFailed(log[1])
    /\ log[2].sent
    /\ success_count = 1

\* C18: no failure of a collaborator ends the process with an uncaught
\* exception: a run that has started is under way or has reached its report,
\* and in scheduled mode the process is then back in the scheduler loop.
C18_NoFailureCrashesTheRun ==
    /\ pc # "crashed"
    /\ (scheduled /\ last_tick >= 0 /\ active = 0) => pc \in {"loop", "sleep", "pending"}

\* how many times the current run has asked the source
Fetches(source) == Cardinality({i \in 1..Len(calls) : calls[i] = source})

EnrichmentSources == {EnrichmentCalls[i] : i \in 1..Len(EnrichmentCalls)}

\* the log holds the recipients handled so far, one entry each, in list order
HandledInOrder ==
    /\ Len(log) <= Len(users)
    /\ \A k \in 1..Len(log) :
          log[k].email = users[k].email /\ log[k].city = users[k].city
    /\ pc = "send" => Len(log) = idx

\* C19 as stated: in one run every shared source is fetched exactly once,
\* whatever the number of recipients, before the first recipient; recipients
\* are handled one by one in list order, each at most once.
C19_EachSourceOncePerRun ==
    /\ pc = "done" => \A source \in EnrichmentSources : Fetches(source) = 1
    /\ log # << >> => \A source \in EnrichmentSources : Fetches(source) = 1
    /\ HandledInOrder

\* C19: in a run whose recipient list is not empty every shared source (news,
\* history, stock, movie, comic) is fetched exactly once, whatever the number
\* of recipients, and all of them before the first recipient is handled; a run
\* whose list is empty fetches none.  No source is ever fetched twice in a
\* run.  Recipients are handled one by one in list order, each at most once.
C19_EachSourceOnceIfRecipients ==
    /\ \A source \in EnrichmentSources : Fetches(source) <= 1
    /\ (pc = "done" /\ users # << >>) =>
          \A source \in EnrichmentSources : Fetches(source) = 1
    /\ (pc = "done" /\ users = << >>) =>
          \A source \in EnrichmentSources : Fetches(source) = 0
    /\ (pc = "send" \/ log # << >>) =>
          \A source \in EnrichmentSources : Fetches(source) = 1
    /\ HandledInOrder

C19_Witness ==
    /\ pc = "done"
    /\ Len(users) = 2
    /\ users[1] # users[2]
    /\ Len(log) = 2
    /\ log[2].attempted
    /\ \A source \in EnrichmentSources : Fetches(source) = 1

\* C20: runs never overlap: the scheduler is at its loop only while no run is
\* in progress, so at most one run is in progress at any time; it invokes the
\* task at most once per 08:00 tick (once a run is over, the next run is
\* planned for a later tick than the one served); and between the read of the
\* marker and its write by one run no other run touches the file.
C20_RunsNeverOverlap ==
    /\ active \in {0, 1}
    /\ pc \in {"idle", "once", "loop", "sleep", "pending", "exit"} => active = 0
    /\ (scheduled /\ pc \in {"loop", "sleep"}) => next_run > last_tick
    /\ pc \in {"xkcd_read", "xkcd_decide"} => (active = 1 /\ file = file0)

C20_Witness ==
    /\ scheduled
    /\ last_tick = MaxDay
    /\ newRuns >= 1
    /\ active = 1
    /\ pc = "xkcd_decide"
    /\ reads = 1

\* main leaves its start: the credentials are there
Started == pc = "idle" /\ pc' # "idle" /\ pc' # "exit"

\* a run of the task begins
RunBegins == active' = active + 1

\* a run of the scheduled process returns to the loop of main
RunReturns == ~run_once /\ pc = "done" /\ pc' = "sleep"

\* C21: in "run once" mode exactly one run is executed, immediately, and the
\* process then terminates; otherwise no run happens at startup and the task
\* is triggered once per day at 08:00, no day left out, for as long as the
\* process lives.
C21_OnceOrOncePerDay ==
    [][/\ (Started /\ run_once) => pc' = "once"
       /\ (Started /\ ~run_once) => (pc' = "loop" /\ active' = 0 /\ ~Due')
       /\ RunBegins => \/ run_once /\ pc = "once"
                       \/ ~run_once /\ pc = "pending" /\ today = last_tick /\ late
       /\ (run_once /\ pc = "done") => pc' \in {"done", "exit"}
       /\ pc = "exit" => pc' = "exit"
       /\ RunReturns => next_run' = last_tick + 1]_vars

\* C22: every outbound request carries a timeout, so that an upstream that
\* never responds cannot stall the batch: no run waits forever for an answer.
C22_NoRequestStallsTheRun == pc # "hung"

\* the run is past get_xkcd_comic, which returned the latest comic as new
DecidedNew == xkcd_comic.kind = "new" /\ pc \in {"send", "done"}

\* C25: the marker is saved when the "new" decision is made, before any
\* recipient is handled and whatever becomes of the emails: a run that decides
\* "new" for comic N has marker = N from the first recipient to its end, also
\* when every recipient is skipped or every send fails, and no later run
\* returns N as new.
C25_MarkerSavedBeforeDelivery ==
    /\ DecidedNew => (writes = 1 /\ PersistedMarker = Some(xkcd_comic.num))
    /\ newRuns <= 1

\* the emails of the current run that were formatted
Formatted == {k \in 1..Len(log) : log[k].attempted}

\* C26: the stock (S&P 500) section is in an email only if the news list is
\* not empty: without news the stock block is left out even though the stock
\* fetch succeeded, while the history, movie and comic sections each depend
\* on their own source only.
C26_StockOnlyWithNews ==
    \A k \in Formatted :
        /\ "stock" \in log[k].sections <=> (news_articles /\ stock_data)
        /\ "history" \in log[k].sections <=> historical_fact
        /\ "movie" \in log[k].sections <=> movie_recommendation
        /\ "comic" \in log[k].sections <=> xkcd_comic.kind # "none"

C26_Witness ==
    /\ stock_data
    /\ ~news_articles
    /\ historical_fact
    /\ \E k \in Formatted :
          /\ log[k].sent
          /\ "stock" \notin log[k].sections
          /\ "history" \in log[k].sections

-----------------------------------------------------------------------------
(* Properties of the length of the series and of its copied entries *)

\* C12 as stated: for every input the series has at most as many entries as
\* the window has 2-hour ticks (8), and an empty list gives an empty series.
C12_AtMostOnePerTick ==
    Shown =>
        /\ Len(next_24h_forecasts) <= Cardinality(WindowTicks)
        /\ forecast_list = << >> => next_24h_forecasts = << >>

\* C12: the series of the interpolation path has at most as many entries as
\* the window has 2-hour ticks (8); any other series has as many entries as
\* there are samples in the window, which may be more than 8 (15 for hourly
\* samples); an empty list gives an empty series.
C12_AtMostTicksOrSamples ==
    Shown =>
        /\ Interpolated => Len(next_24h_forecasts) <= Cardinality(WindowTicks)
        /\ ~Interpolated => Len(next_24h_forecasts) = Len(InWindowSamples)
        /\ forecast_list = << >> => next_24h_forecasts = << >>

C12_Witness ==
    /\ Shown
    /\ ~Interpolated
    /\ Cardinality(WindowTicks) = 8
    /\ Len(next_24h_forecasts) = 15

\* the sample s, its timestamp replaced by t
Moved(s, t) == [dt |-> t, temp |-> s.temp, feels_like |-> s.feels_like,
                id |-> s.id, pop |-> s.pop]

\* interpolate_to_hourly called with the list of the input itself
Direct == interpolate_to_hourly(forecast_list, start_timestamp, end_timestamp)

\* C13: in the interpolation path, a tick t with no sample at or before it
\* gets the earliest sample, a tick with no sample after it gets the latest
\* sample (the code then holds that sample as both before and after: a
\* zero-width interval), copied verbatim with its timestamp replaced by t.
\* Called with one sample, the function copies it at every tick; called with
\* no sample, it produces no entry.
C13_CopiesTheOnlyNeighbour ==
    /\ Interpolated =>
          \A t \in WindowTicks :
              /\ (NotAfter(t) = {} /\ After(t) # {}) =>
                     EntriesAt(t) = {Moved(Earliest(t), t)}
              /\ (NotAfter(t) # {} /\ After(t) = {}) =>
                     EntriesAt(t) = {Moved(Latest(t), t)}
    /\ (Shown /\ Len(forecast_list) = 0) => Direct = << >>
    /\ (Shown /\ Len(forecast_list) = 1) =>
          Direct = [k \in 1..Cardinality(WindowTicks) |->
                       Moved(forecast_list[1], start_timestamp + (k - 1) * TwoHours)]

C13_Witness ==
    /\ Interpolated
    /\ \E t \in WindowTicks :
          /\ NotAfter(t) = {} /\ After(t) # {}
          /\ Earliest(t).dt # t
          /\ Moved(Earliest(t), t) \in EntriesAt(t)
    /\ \E t \in WindowTicks :
          /\ NotAfter(t) # {} /\ After(t) = {}
          /\ Latest(t).dt # t
          /\ Latest(t) # InWindowSamples[1]
          /\ Moved(Latest(t), t) \in EntriesAt(t)

-----------------------------------------------------------------------------
(* Properties of the weather lookup and of the day of the window *)

\* get_weather_data has answered and its result is at hand
Looked == fpc = "looked"

\* the One Call attempt failed: another status than 200, or an exception
HourlyAttemptFailed == lookup.onecall \in {"non200", "exception"}

\* C23: once the current-weather call has succeeded, a failure of the hourly
\* attempt (a status other than 200, or any exception) is swallowed and the
\* 3-hourly forecast is asked for, so that the hourly attempt alone never
\* makes the lookup fail; the lookup fails only if the current-weather call
\* or the 3-hourly call fails.
C23_HourlyFailureFallsBack ==
    Looked =>
        /\ (lookup.current = "ok" /\ HourlyAttemptFailed) =>
              /\ lookup.forecast = "ok" =>
                    lookup.result = [data |-> "ok", forecast |-> "3-hourly"]
              /\ lookup.forecast = "error" => lookup.result.data = "none"
              /\ lookup.result.data = "none" => lookup.forecast = "error"
        /\ lookup.result.data \in {"none", "malformed"} =>
              \/ lookup.current \in {"error", "malformed"}
              \/ lookup.current = "ok" /\ lookup.onecall # "ok"
                    /\ lookup.forecast = "error"

C23_Witness ==
    /\ Looked
    /\ lookup.current = "ok"
    /\ lookup.onecall = "exception"
    /\ lookup.forecast = "ok"
    /\ lookup.result = [data |-> "ok", forecast |-> "3-hourly"]

\* C24: a run before 8am shows the window 08:00-22:00 of today, a run at 8am
\* or later the window 08:00-22:00 of tomorrow.
C24_TomorrowFromEight ==
    fpc = "shown" =>
        /\ target_date = IF now_hour < 8 THEN 0 ELSE 1
        /\ start_timestamp = 8 * SecondsPerHour
        /\ end_timestamp = 22 * SecondsPerHour

-----------------------------------------------------------------------------
(* Properties of the series and the samples outside the window *)

\* the first and the last sample in the window
FirstInWindow == InWindowSamples[1]
LastInWindow == InWindowSamples[Len(InWindowSamples)]

\* C27: the series depends only on the samples whose timestamp lies in the
\* window: it is what the same code makes of the in-window samples alone,
\* both in the regular/3-hourly decision and in the interpolation, and a tick
\* earlier than the first (later than the last) in-window sample copies that
\* sample instead of interpolating toward a neighbour outside the window.
C27_OnlyInWindowSamplesCount ==
    Shown =>
        /\ next_24h_forecasts =
              Series(InWindowSamples, start_timestamp, end_timestamp)
        /\ Interpolated =>
              /\ next_24h_forecasts =
                    interpolate_to_hourly(InWindowSamples, start_timestamp,
                                          end_timestamp)
              /\ \A t \in WindowTicks :
                    /\ t < FirstInWindow.dt =>
                          EntriesAt(t) = {Moved(FirstInWindow, t)}
                    /\ t > LastInWindow.dt =>
                          EntriesAt(t) = {Moved(LastInWindow, t)}

C27_Witness ==
    /\ Interpolated
    /\ forecast_list[1].dt < start_timestamp
    /\ forecast_list[1].temp # FirstInWindow.temp
    /\ start_timestamp < FirstInWindow.dt
    /\ next_24h_forecasts[1] = Moved(FirstInWindow, start_timestamp)

====
